---- MODULE Spec2Model ----
(***************************************************************************)
(* A model of seo_app.py: the "Run Audit" handler (CSV column detection,   *)
(* the per-row fetch / extract / flatten / AI / score loop, the final sort *)
(* and publish into the session state) with the pure helpers it calls.     *)
(* Python strings are TLA+ strings; None and optional values are records   *)
(* [some, v]; JSON values are records tagged by their kind.  Credentials   *)
(* are present (the script stops at load otherwise); the progress bar, the *)
(* per-row status text and the inter-row sleep are display only and are    *)
(* left out, as is the table rendered from the session state.              *)
(***************************************************************************)
EXTENDS Integers, Sequences, FiniteSets, TLC

VARIABLES
    pc,              \* where the script is: idle, rows, done, stopped, crashed
    use_ai,          \* sidebar: "Enable AI Analysis"
    staging_domain,  \* sidebar: the staging domain, "" when not overriding
    rows,            \* list(csv.DictReader(...))
    url_key, title_key, headers,
    i,               \* rows the loop has consumed
    results, processed,
    seo_results,     \* st.session_state["seo_results"]
    status,          \* the last message shown (st.error / status.warning / ...)
    response,        \* the response the last fetch got
    data,            \* scrape_seo_data's result for the last fetched row
    ai_reply,        \* what the AI client did on the last call
    ai_feedback,     \* the opinion used for the last scored row
    fetches, aiCalls \* calls of requests.get and of analyze_with_gemini so far

vars == <<pc, use_ai, staging_domain, rows, url_key, title_key, headers, i, results,
          processed, seo_results, status, response, data, ai_reply, ai_feedback,
          fetches, aiCalls>>

(***************************************************************************)
(* Python values                                                           *)
(***************************************************************************)
None == [some |-> FALSE, v |-> ""]
Some(x) == [some |-> TRUE, v |-> x]

\* bool(x) of an optional string: None and "" are falsy.
Truthy(o) == o.some /\ o.v # ""

Range(s) == {s[n] : n \in DOMAIN s}

(***************************************************************************)
(* str methods                                                             *)
(***************************************************************************)
Whitespace == {" ", "\t"}

CharAt(s, n) == SubSeq(s, n, n)

LowerChar(c) ==
    CASE c = "A" -> "a" [] c = "B" -> "b" [] c = "C" -> "c" [] c = "D" -> "d"
      [] c = "E" -> "e" [] c = "F" -> "f" [] c = "G" -> "g" [] c = "H" -> "h"
      [] c = "I" -> "i" [] c = "J" -> "j" [] c = "K" -> "k" [] c = "L" -> "l"
      [] c = "M" -> "m" [] c = "N" -> "n" [] c = "O" -> "o" [] c = "P" -> "p"
      [] c = "Q" -> "q" [] c = "R" -> "r" [] c = "S" -> "s" [] c = "T" -> "t"
      [] c = "U" -> "u" [] c = "V" -> "v" [] c = "W" -> "w" [] c = "X" -> "x"
      [] c = "Y" -> "y" [] c = "Z" -> "z" [] OTHER -> c

RECURSIVE Lower(_)
\* str.lower()
Lower(s) == IF Len(s) = 0 THEN "" ELSE LowerChar(CharAt(s, 1)) \o Lower(SubSeq(s, 2, Len(s)))

RECURSIVE LStrip(_)
LStrip(s) ==
    IF Len(s) > 0 /\ CharAt(s, 1) \in Whitespace THEN LStrip(SubSeq(s, 2, Len(s))) ELSE s

RECURSIVE RStrip(_)
RStrip(s) ==
    IF Len(s) > 0 /\ CharAt(s, Len(s)) \in Whitespace THEN RStrip(SubSeq(s, 1, Len(s) - 1)) ELSE s

\* str.strip()
Strip(s) == RStrip(LStrip(s))

\* needle in hay, for two strings
StrContains(needle, hay) ==
    \E n \in 1..(Len(hay) - Len(needle) + 1) : SubSeq(hay, n, n + Len(needle) - 1) = needle

\* s.startswith(prefix)
StartsWith(s, prefix) == Len(s) >= Len(prefix) /\ SubSeq(s, 1, Len(prefix)) = prefix

RECURSIVE Rep(_, _)
\* c * n
Rep(c, n) == IF n = 0 THEN "" ELSE c \o Rep(c, n - 1)

(***************************************************************************)
(* CSV rows: csv.DictReader yields one dict per record, keyed by the       *)
(* header row in header order; a row is [keys, vals].                      *)
(***************************************************************************)
Row(keys, vals) == [keys |-> keys, vals |-> vals]

\* row.get(key, default); key is an optional string (None is never a key here).
RowGet(row, key, default) ==
    IF key.some /\ \E n \in DOMAIN row.keys : row.keys[n] = key.v
    THEN row.vals[CHOOSE n \in DOMAIN row.keys : row.keys[n] = key.v]
    ELSE default

url_candidates == <<"url", "page url", "page_url", "loc", "link", "address">>
title_candidates == <<"page title", "title", "page", "name">>

\* headers_norm = {h.strip().lower(): h for h in headers}: a later header
\* with the same normal form overwrites an earlier one.
HeadersNormHas(hs, cand) == \E n \in DOMAIN hs : Lower(Strip(hs[n])) = cand
HeadersNormGet(hs, cand) ==
    LET last == CHOOSE n \in DOMAIN hs :
                    /\ Lower(Strip(hs[n])) = cand
                    /\ \A m \in DOMAIN hs : Lower(Strip(hs[m])) = cand => m <= n
    IN hs[last]

RECURSIVE FirstHeaderMatch(_, _)
\* The first header, in header order, that matches any candidate.
FirstHeaderMatch(cands, hs) ==
    IF hs = <<>> THEN None
    ELSE IF Lower(Strip(Head(hs))) \in Range(cands) THEN Some(Head(hs))
    ELSE FirstHeaderMatch(cands, Tail(hs))

RECURSIVE FirstCandidate(_, _)
\* for cand in candidates: if cand in headers_norm: key = headers_norm[cand]; break
FirstCandidate(cands, hs) ==
    IF cands = <<>> THEN None
    ELSE IF HeadersNormHas(hs, Head(cands)) THEN Some(HeadersNormGet(hs, Head(cands)))
    ELSE FirstCandidate(Tail(cands), hs)

RECURSIVE DropBlank(_)
\* [h for h in rows[0].keys() if h]
DropBlank(ks) ==
    IF ks = <<>> THEN <<>>
    ELSE (IF Head(ks) # "" THEN <<Head(ks)>> ELSE <<>>) \o DropBlank(Tail(ks))

\* "if not url_key and len(headers) == 1: url_key = headers[0]"
SoleHeaderFallback(found, hs) ==
    IF ~Truthy(found) /\ Len(hs) = 1 THEN Some(hs[1]) ELSE found

detect_csv_columns(rs) ==
    IF rs = <<>> THEN [url_key |-> None, title_key |-> None, headers |-> <<>>]
    ELSE LET hs == DropBlank(rs[1].keys)
         IN [url_key   |-> SoleHeaderFallback(FirstCandidate(url_candidates, hs), hs),
             title_key |-> FirstCandidate(title_candidates, hs),
             headers   |-> hs]

(***************************************************************************)
(* JSON values and json.loads.  A JSON value is tagged by its Python type. *)
(* json.loads is modelled by its value on each text the model feeds it;    *)
(* any other text raises JSONDecodeError.                                  *)
(***************************************************************************)
JStr(s) == [k |-> "str", s |-> s]
JNum == [k |-> "num"]
JNull == [k |-> "null"]
JList(items) == [k |-> "list", items |-> items]
JDict(keys, vals) == [k |-> "dict", keys |-> keys, vals |-> vals]

DictHas(d, key) == \E n \in DOMAIN d.keys : d.keys[n] = key
\* d.get(key, default) on a dict
DictGet(d, key, default) ==
    IF DictHas(d, key) THEN d.vals[CHOOSE n \in DOMAIN d.keys : d.keys[n] = key] ELSE default

JsonDecodeMsg == "Expecting value: line 1 column 1 (char 0)"

OpinionKeys == <<"rating", "writing_quality", "suggested_desc", "schema_prescription">>
Opinion(rating, quality, desc, rx) == JDict(OpinionKeys, <<rating, quality, desc, rx>>)

json_loads(text) ==
    LET ok(v) == [ok |-> TRUE, val |-> v, msg |-> ""]
    IN CASE text = "{\"@type\":\"FAQPage\"}" ->
              ok(JDict(<<"@type">>, <<JStr("FAQPage")>>))
         [] text = "{\"@type\":[\"Physician\",\"Person\"]}" ->
              ok(JDict(<<"@type">>, <<JList(<<JStr("Physician"), JStr("Person")>>)>>))
         [] text = "{\"@type\":5}" ->
              ok(JDict(<<"@type">>, <<JNum>>))
         [] text = "{\"@type\":{\"a\":null}}" ->
              ok(JDict(<<"@type">>, <<JDict(<<"a">>, <<JNull>>)>>))
         [] text = "{\"@graph\":[{\"@type\":\"WebPage\"},{}]}" ->
              ok(JDict(<<"@graph">>,
                       <<JList(<<JDict(<<"@type">>, <<JStr("WebPage")>>), JDict(<<>>, <<>>)>>)>>))
         [] text = "{\"@graph\":[{\"@type\":\"FAQPage\"},7,{\"@type\":\"Person\"}]}" ->
              ok(JDict(<<"@graph">>,
                       <<JList(<<JDict(<<"@type">>, <<JStr("FAQPage")>>), JNum,
                                 JDict(<<"@type">>, <<JStr("Person")>>)>>)>>))
         [] text = "{\"@graph\":5}" -> ok(JDict(<<"@graph">>, <<JNum>>))
         [] text = "{}" -> ok(JDict(<<>>, <<>>))
         [] text = "[1]" -> ok(JList(<<JNum>>))
         [] text = "[\"@graph\"]" -> ok(JList(<<JStr("@graph")>>))
         [] text = "\"@graph\"" -> ok(JStr("@graph"))
         [] text = "5" -> ok(JNum)
         [] text = "null" -> ok(JNull)
         [] text = "{\"rating\":\"High\",\"writing_quality\":\"Professional\",\"suggested_desc\":\"Keep Current\",\"schema_prescription\":\"Optimal\"}" ->
              ok(Opinion(JStr("High"), JStr("Professional"), JStr("Keep Current"), JStr("Optimal")))
         [] text = "{\"rating\":\"Low\",\"writing_quality\":\"Poor\",\"suggested_desc\":\"Better\",\"schema_prescription\":\"Physician\"}" ->
              ok(Opinion(JStr("Low"), JStr("Poor"), JStr("Better"), JStr("Physician")))
         [] text = "{\"rating\":\"Medium\",\"writing_quality\":\"Awkward\",\"suggested_desc\":\"Better\",\"schema_prescription\":\"\"}" ->
              ok(Opinion(JStr("Medium"), JStr("Awkward"), JStr("Better"), JStr("")))
         [] text = "{\"rating\":\"Low\"}" -> ok(JDict(<<"rating">>, <<JStr("Low")>>))
         [] text = "{\"rating\":\"High\",\"schema_prescription\":5}" ->
              ok(JDict(<<"rating", "schema_prescription">>, <<JStr("High"), JNum>>))
         [] text = "{\"rating\":\"High\",\"schema_prescription\":null}" ->
              ok(JDict(<<"rating", "schema_prescription">>, <<JStr("High"), JNull>>))
         [] text = "{\"rating\":\"High\",\"schema_prescription\":[\"Physician\"]}" ->
              ok(JDict(<<"rating", "schema_prescription">>,
                       <<JStr("High"), JList(<<JStr("Physician")>>)>>))
         [] OTHER -> [ok |-> FALSE, val |-> JNull, msg |-> JsonDecodeMsg]

(***************************************************************************)
(* scrape_seo_data.  A response is [ok, err, page]: ok = FALSE when        *)
(* requests.get, raise_for_status or the parse raised (err is str(e)).     *)
(* A page is what BeautifulSoup finds: title and h1 are the text of the    *)
(* first such element (None when there is none), meta is the content       *)
(* attribute of <meta name="description"> (None when absent), ld the       *)
(* s.string of each <script type="application/ld+json"> in document order  *)
(* ("" for a script with no text), body the stripped body text, ratio the  *)
(* value of SequenceMatcher(...).ratio() * 100 for this page.              *)
(***************************************************************************)
MISSING == "MISSING"

NoData ==
    [isError |-> TRUE, Error |-> "", Title |-> "", H1 |-> "", Meta_Description |-> "",
     Schema_Raw |-> <<>>, JSON_Valid |-> TRUE, Body_Text |-> "", Echo_Score |-> 0]

RECURSIVE ScanLdJsonBreak(_)
\* ScanLdJson with a failing block ending the scan.
ScanLdJsonBreak(blocks) ==
    IF blocks = <<>> THEN [schemas |-> <<>>, valid_json |-> TRUE]
    ELSE IF Head(blocks) = "" THEN ScanLdJsonBreak(Tail(blocks))
    ELSE IF json_loads(Head(blocks)).ok
         THEN LET rest == ScanLdJsonBreak(Tail(blocks))
              IN [schemas |-> <<Head(blocks)>> \o rest.schemas, valid_json |-> rest.valid_json]
         ELSE [schemas |-> <<>>, valid_json |-> FALSE]

RECURSIVE ScanLdJson(_)
\* The loop over soup.find_all("script", type="application/ld+json").
ScanLdJson(blocks) ==
    IF blocks = <<>> THEN [schemas |-> <<>>, valid_json |-> TRUE]
    ELSE LET rest == ScanLdJson(Tail(blocks))
         IN IF Head(blocks) = "" THEN rest
            ELSE IF json_loads(Head(blocks)).ok
                 THEN [schemas |-> <<Head(blocks)>> \o rest.schemas,
                       valid_json |-> rest.valid_json]
                 ELSE [schemas |-> rest.schemas, valid_json |-> FALSE]

\* soup.find(tag).get_text().strip() if soup.find(tag) else "MISSING"
TextOrMissing(found) == IF found.some THEN Strip(found.v) ELSE MISSING

\* meta["content"].strip() if meta and meta.get("content") else "MISSING"
MetaOrMissing(content) == IF Truthy(content) THEN Strip(content.v) ELSE MISSING

EchoScore(meta_desc, body_text, ratio) ==
    IF meta_desc # MISSING /\ body_text # "" THEN ratio ELSE 0

scrape_seo_data(resp) ==
    IF ~resp.ok THEN [NoData EXCEPT !.Error = resp.err]
    ELSE LET pg == resp.page
             scan == ScanLdJson(pg.ld)
             meta_desc == MetaOrMissing(pg.meta)
         IN [isError |-> FALSE, Error |-> "",
             Title |-> TextOrMissing(pg.title),
             H1 |-> TextOrMissing(pg.h1),
             Meta_Description |-> meta_desc,
             Schema_Raw |-> scan.schemas,
             JSON_Valid |-> scan.valid_json,
             Body_Text |-> pg.body,
             Echo_Score |-> EchoScore(meta_desc, pg.body, pg.ratio)]

(***************************************************************************)
(* Schema flattening (the per-row loop).  An exception inside the try of   *)
(* one block is swallowed; what was appended before it stays.              *)
(***************************************************************************)
RECURSIVE GraphTypes(_)
\* for item in j["@graph"]: schema_list.append(item.get("@type", "Unknown"))
\* item.get raises on anything but a dict, which ends the block.
GraphTypes(items) ==
    IF items = <<>> THEN <<>>
    ELSE IF Head(items).k = "dict"
         THEN <<DictGet(Head(items), "@type", JStr("Unknown"))>> \o GraphTypes(Tail(items))
         ELSE <<>>

BlockTypes(s) ==
    LET r == json_loads(s)
    IN IF ~r.ok \/ r.val.k # "dict" THEN <<>>
       ELSE IF DictHas(r.val, "@graph")
            THEN LET g == DictGet(r.val, "@graph", JNull)
                 IN IF g.k = "list" THEN GraphTypes(g.items) ELSE <<>>
            ELSE <<DictGet(r.val, "@type", JStr("Unknown"))>>

RECURSIVE SchemaList(_)
SchemaList(raw) == IF raw = <<>> THEN <<>> ELSE BlockTypes(Head(raw)) \o SchemaList(Tail(raw))

RECURSIVE FlatSchema(_)
\* extend for a list-valued @type, append otherwise
FlatSchema(list) ==
    IF list = <<>> THEN <<>>
    ELSE (IF Head(list).k = "list" THEN Head(list).items ELSE <<Head(list)>>)
         \o FlatSchema(Tail(list))

\* ", ".join(sorted(set(flat_schema))) if flat_schema else "": the set of
\* names; set() raises on a dict or list, sorted() on mixed types, join on
\* anything that is not a str, so it raises unless every entry is a str.
FoundSchema(flat) ==
    IF flat = <<>> THEN [raised |-> FALSE, v |-> {}]
    ELSE IF \A n \in DOMAIN flat : flat[n].k = "str"
         THEN [raised |-> FALSE, v |-> {flat[n].s : n \in DOMAIN flat}]
         ELSE [raised |-> TRUE, v |-> {}]

(***************************************************************************)
(* analyze_with_gemini.  A reply is [raised, msg, text]: the client raised *)
(* (msg is str(e)) or returned response.text.                              *)
(***************************************************************************)
ErrorOpinion(msg) == Opinion(JStr("Error"), JStr("Error"), JStr(""), JStr(msg))

\* ai_feedback = {} when AI analysis is disabled
EmptyOpinion == JDict(<<>>, <<>>)

analyze_with_gemini(reply) ==
    IF reply.raised THEN ErrorOpinion(reply.msg)
    ELSE LET r == json_loads(reply.text)
         IN IF r.ok THEN r.val ELSE ErrorOpinion(r.msg)

(***************************************************************************)
(* calculate_score                                                         *)
(***************************************************************************)
\* bool(v) of a JSON value (a number stands for a non-zero one)
PyTruthy(v) ==
    CASE v.k = "str" -> v.s # ""
      [] v.k = "list" -> v.items # <<>>
      [] v.k = "dict" -> v.keys # <<>>
      [] v.k = "num" -> TRUE
      [] OTHER -> FALSE

\* needle in v, for v a str (substring), list (member) or dict (key)
PyIn(needle, v) ==
    CASE v.k = "str" -> StrContains(needle, v.s)
      [] v.k = "list" -> JStr(needle) \in Range(v.items)
      [] v.k = "dict" -> DictHas(v, needle)
      [] OTHER -> FALSE

RECURSIVE Join(_)
\* ", ".join(reasons)
Join(reasons) ==
    IF reasons = <<>> THEN ""
    ELSE IF Len(reasons) = 1 THEN reasons[1]
    ELSE reasons[1] \o ", " \o Join(Tail(reasons))

RECURSIVE Sum(_)
Sum(ns) == IF ns = <<>> THEN 0 ELSE Head(ns) + Sum(Tail(ns))

Ded(cond, pts, label) == IF cond THEN <<[pts |-> pts, label |-> label]>> ELSE <<>>

\* The technical and content deductions, in application order.  (The
\* source's label for the echo deduction starts with a warning sign.)
PageDeductions(d) ==
    Ded(~d.JSON_Valid, 30, "Broken Schema Syntax (-30)")
    \o Ded(d.Title = MISSING, 20, "Missing Title (-20)")
    \o Ded(d.H1 = MISSING, 10, "Missing H1 (-10)")
    \o Ded(d.Echo_Score > 85, 15, "Auto-Generated Desc (-15)")
    \o Ded(Len(d.Title) < 10 \/ Len(d.Title) > 70, 5, "Bad Title Len (-5)")

\* "prescription and 'Optimal' not in prescription and 'Error' not in prescription"
RxTriggers(prescription) ==
    PyTruthy(prescription) /\ ~PyIn("Optimal", prescription) /\ ~PyIn("Error", prescription)

\* The AI deductions; ai is a dict here.
AiDeductions(ai) ==
    Ded(DictGet(ai, "rating", JNull) = JStr("Low"), 20, "Low Content Relevance (-20)")
    \o Ded(RxTriggers(DictGet(ai, "schema_prescription", JStr(""))), 10,
           "Missing Specific Schema (-10)")

\* ai_result.get raises AttributeError unless ai_result is a dict; a truthy
\* number as prescription makes "'Optimal' not in prescription" raise TypeError.
ScoreRaises(ai) ==
    \/ ai.k # "dict"
    \/ DictGet(ai, "schema_prescription", JStr("")).k = "num"

\* Clamp without the lower bound.
NoClamp(score) == score

\* max(0, score)
Clamp(score) == IF score < 0 THEN 0 ELSE score

calculate_score(d, ai) ==
    IF ScoreRaises(ai) THEN [raised |-> TRUE, score |-> 0, log |-> ""]
    ELSE LET ds == PageDeductions(d) \o AiDeductions(ai)
         IN [raised |-> FALSE,
             score |-> Clamp(100 - Sum([n \in DOMAIN ds |-> ds[n].pts])),
             log |-> Join([n \in DOMAIN ds |-> ds[n].label])]

(***************************************************************************)
(* The per-row loop's helpers                                              *)
(***************************************************************************)
\* IsBlankUrl without the test for a whitespace-only cell.
IsBlankUrlNoStrip(url) == ~Truthy(url)

\* "if not url or str(url).strip() == '': continue"
IsBlankUrl(url) == ~Truthy(url) \/ Strip(url.v) = ""

\* The least n with s[n] in chars, Len(s) + 1 when there is none.
IndexOfAny(s, chars) ==
    IF \E n \in 1..Len(s) : CharAt(s, n) \in chars
    THEN CHOOSE n \in 1..Len(s) :
             /\ CharAt(s, n) \in chars
             /\ \A m \in 1..(n - 1) : CharAt(s, m) \notin chars
    ELSE Len(s) + 1

\* urlparse(url).path of a URL that starts with http:// or https://
UrlPath(url) ==
    LET rest == IF StartsWith(url, "https://") THEN SubSeq(url, 9, Len(url))
                ELSE SubSeq(url, 8, Len(url))
        tail == SubSeq(rest, IndexOfAny(rest, {"/", "?", "#"}), Len(rest))
    IN IF StartsWith(tail, "/") THEN SubSeq(tail, 1, IndexOfAny(tail, {"?", "#"}) - 1) ELSE ""

\* strip, add the scheme, substitute the staging domain
NormalizeUrl(cell, staging) ==
    LET u == Strip(cell)
        withScheme == IF StartsWith(u, "http://") \/ StartsWith(u, "https://") THEN u
                      ELSE "https://" \o u
    IN IF staging # "" THEN "https://" \o staging \o UrlPath(withScheme) ELSE withScheme

QuoteChar(c) ==
    CASE c = ":" -> "%3A" [] c = "?" -> "%3F" [] c = "#" -> "%23" [] c = " " -> "%20"
      [] c = "=" -> "%3D" [] OTHER -> c

RECURSIVE Quote(_)
\* urllib.parse.quote(url): "/" and unreserved characters are kept
Quote(s) == IF Len(s) = 0 THEN "" ELSE QuoteChar(CharAt(s, 1)) \o Quote(SubSeq(s, 2, Len(s)))

\* csv_title.strip() if isinstance(csv_title, str) and csv_title.strip()
HasCsvTitle(csv_title) == csv_title.some /\ Strip(csv_title.v) # ""

\* The record of a row whose fetch failed; row is the row's position in the CSV.
ErrorRecord(row, display_name, url, err) ==
    [row |-> row, Page_Title |-> display_name, URL |-> url, Score |-> 0, Score_Log |-> "",
     Current_Title |-> "", H1_Tag |-> "", Current_Desc |-> "",
     AI_Suggested_Desc |-> JStr("-"), Found_Schema |-> {}, Rx_Schema |-> JStr(""),
     Verify |-> "", Status |-> "ERROR", Error |-> Some(err)]

\* The record of a scored row (it has no Status and no Error key).
ScoredRecord(row, display_name, url, d, ai, sc, found) ==
    [row |-> row, Page_Title |-> display_name, URL |-> url, Score |-> sc.score,
     Score_Log |-> sc.log, Current_Title |-> d.Title, H1_Tag |-> d.H1,
     Current_Desc |-> d.Meta_Description,
     AI_Suggested_Desc |-> DictGet(ai, "suggested_desc", JStr("-")),
     Found_Schema |-> found,
     Rx_Schema |-> DictGet(ai, "schema_prescription", JStr("-")),
     Verify |-> "https://search.google.com/test/rich-results?url=" \o Quote(url),
     Status |-> "", Error |-> None]

RECURSIVE InsertBefore(_, _)
InsertBefore(r, sorted) ==
    IF sorted = <<>> THEN <<r>>
    ELSE IF Head(sorted).Score < r.Score THEN <<Head(sorted)>> \o InsertBefore(r, Tail(sorted))
    ELSE <<r>> \o sorted

RECURSIVE SortByScoreUnstable(_)
\* A sort by score that puts a record before the earlier ones of equal score.
SortByScoreUnstable(rs) ==
    IF rs = <<>> THEN <<>>
    ELSE InsertBefore(rs[Len(rs)], SortByScoreUnstable(SubSeq(rs, 1, Len(rs) - 1)))

RECURSIVE InsertAfter(_, _)
InsertAfter(r, sorted) ==
    IF sorted = <<>> THEN <<r>>
    ELSE IF Head(sorted).Score <= r.Score THEN <<Head(sorted)>> \o InsertAfter(r, Tail(sorted))
    ELSE <<r>> \o sorted

RECURSIVE SortByScore(_)
\* results.sort(key=lambda x: x.get("Score", 0)): list.sort is stable
SortByScore(rs) ==
    IF rs = <<>> THEN <<>>
    ELSE InsertAfter(rs[Len(rs)], SortByScore(SubSeq(rs, 1, Len(rs) - 1)))

(***************************************************************************)
(* Messages                                                                *)
(***************************************************************************)
Msg(level, text, hs, n) == [level |-> level, text |-> text, headers |-> hs, count |-> n]
NoMsg == Msg("", "", <<>>, 0)
MsgNoFile == Msg("warning", "Please upload a CSV first.", <<>>, 0)
MsgEmptyCsv == Msg("error", "CSV appears empty or has no header row.", <<>>, 0)
MsgNoUrlColumn(hs) == Msg("error", "Couldn't find a URL column. Your headers are: ", hs, 0)
MsgZeroValid == Msg("warning", "Audit finished but **zero valid URLs** were found.", <<>>, 0)
MsgComplete(n) == Msg("success", "Audit Complete! Processed row(s): ", <<>>, n)

(***************************************************************************)
(* The script.  The page is loaded with an empty session state; the user   *)
(* sets the sidebar and presses "Run Audit" once.                          *)
(***************************************************************************)
Page(title, h1, meta, ld, body, ratio) ==
    [title |-> title, h1 |-> h1, meta |-> meta, ld |-> ld, body |-> body, ratio |-> ratio]
NoPage == Page(None, None, None, <<>>, "", 0)
Fetched(pg) == [ok |-> TRUE, err |-> "", page |-> pg]
FetchFailed(err) == [ok |-> FALSE, err |-> err, page |-> NoPage]
NoResponse == FetchFailed("")

Raised(msg) == [raised |-> TRUE, msg |-> msg, text |-> ""]
Replied(text) == [raised |-> FALSE, msg |-> "", text |-> text]
NoReply == Raised("")

Init ==
    /\ pc = "idle"
    /\ use_ai \in BOOLEAN
    /\ staging_domain \in {"", "stage.io"}
    /\ rows = <<>>
    /\ url_key = None /\ title_key = None /\ headers = <<>>
    /\ i = 0
    /\ results = <<>> /\ processed = 0
    /\ seo_results = <<>>
    /\ status = NoMsg
    /\ response = NoResponse
    /\ data = NoData
    /\ ai_reply = NoReply
    /\ ai_feedback = EmptyOpinion
    /\ fetches = 0 /\ aiCalls = 0

\* ConfigError with the checks left out.
ConfigErrorNever(rs, det) == NoMsg

\* Which fatal message stops the run before the loop, NoMsg when none does.
ConfigError(rs, det) ==
    IF rs = <<>> THEN MsgEmptyCsv
    ELSE IF ~Truthy(det.url_key) THEN MsgNoUrlColumn(det.headers)
    ELSE NoMsg

\* "Run Audit" pressed with no file uploaded.
RunAuditNoFile ==
    /\ pc = "idle"
    /\ pc' = "stopped"
    /\ status' = MsgNoFile
    /\ UNCHANGED <<use_ai, staging_domain, rows, url_key, title_key, headers, i, results,
                   processed, seo_results, response, data, ai_reply, ai_feedback,
                   fetches, aiCalls>>

\* "Run Audit" pressed with a file whose parsed rows are csv: up to the loop.
RunAuditWith(csv) ==
    LET det == detect_csv_columns(csv)
        err == ConfigError(csv, det)
    IN /\ pc = "idle"
       /\ rows' = csv
       /\ IF csv = <<>>
          THEN UNCHANGED <<url_key, title_key, headers>>
          ELSE /\ url_key' = det.url_key
               /\ title_key' = det.title_key
               /\ headers' = det.headers
       /\ status' = err
       /\ pc' = IF err # NoMsg THEN "stopped" ELSE "rows"
       /\ UNCHANGED <<use_ai, staging_domain, i, results, processed, seo_results,
                      response, data, ai_reply, ai_feedback, fetches, aiCalls>>

\* One iteration of "for i, row in enumerate(rows)": the fetch gets rsp and,
\* when the AI is asked, the client gives reply.
RowBody(rsp, reply) ==
    LET row == rows[i + 1]
        csv_title == IF Truthy(title_key) THEN RowGet(row, title_key, Some(""))
                     ELSE RowGet(row, Some("Page Title"), Some(""))
        cell == RowGet(row, url_key, Some(""))
        url == NormalizeUrl(cell.v, staging_domain)
        d == scrape_seo_data(rsp)
        flat == FlatSchema(SchemaList(d.Schema_Raw))
        ai == IF use_ai THEN analyze_with_gemini(reply) ELSE EmptyOpinion
        sc == calculate_score(d, ai)
        found == FoundSchema(flat)
    IN IF IsBlankUrl(cell)
       THEN /\ i' = i + 1
            /\ UNCHANGED <<pc, results, processed, response, data, ai_reply,
                           ai_feedback, fetches, aiCalls>>
       ELSE /\ response' = rsp
            /\ data' = d
            /\ fetches' = fetches + 1
            /\ processed' = processed + 1
            /\ IF d.isError
               THEN /\ results' = Append(results,
                           ErrorRecord(i + 1,
                                       IF HasCsvTitle(csv_title) THEN Strip(csv_title.v)
                                       ELSE url,
                                       url, d.Error))
                    /\ i' = i + 1
                    /\ UNCHANGED <<pc, ai_reply, ai_feedback, aiCalls>>
               ELSE /\ ai_reply' = IF use_ai THEN reply ELSE ai_reply
                    /\ ai_feedback' = ai
                    /\ aiCalls' = IF use_ai THEN aiCalls + 1 ELSE aiCalls
                    /\ IF sc.raised \/ found.raised
                       THEN \* an uncaught exception ends the script run
                            /\ pc' = "crashed"
                            /\ UNCHANGED <<i, results>>
                       ELSE /\ results' = Append(results,
                                   ScoredRecord(i + 1,
                                                IF HasCsvTitle(csv_title)
                                                THEN Strip(csv_title.v) ELSE d.Title,
                                                url, d, ai, sc, found.v))
                            /\ i' = i + 1
                            /\ UNCHANGED pc

ProcessRowWith(rsp, reply) ==
    /\ pc = "rows"
    /\ i < Len(rows)
    /\ RowBody(rsp, reply)
    /\ UNCHANGED <<use_ai, staging_domain, rows, url_key, title_key, headers,
                   seo_results, status>>

\* After the loop: the warning, or sort and publish.
Finish ==
    /\ pc = "rows"
    /\ i = Len(rows)
    /\ pc' = "done"
    /\ IF processed = 0
       THEN /\ status' = MsgZeroValid
            /\ seo_results' = <<>>
            /\ UNCHANGED results
       ELSE /\ status' = MsgComplete(processed)
            /\ results' = SortByScore(results)
            /\ seo_results' = SortByScore(results)
    /\ UNCHANGED <<use_ai, staging_domain, rows, url_key, title_key, headers, i,
                   processed, response, data, ai_reply, ai_feedback, fetches, aiCalls>>

(***************************************************************************)
(* Inputs                                                                  *)
(***************************************************************************)
MaxRows == 3
MaxBlocks == 2
MaxHeaders == 2

\* Sequences over S of length lo..hi
SeqsOf(S, lo, hi) == UNION {[1..n -> S] : n \in lo..hi}

FaqBlock == "{\"@type\":\"FAQPage\"}"
OptimalReply == "{\"rating\":\"High\",\"writing_quality\":\"Professional\",\"suggested_desc\":\"Keep Current\",\"schema_prescription\":\"Optimal\"}"
LowReply == "{\"rating\":\"Low\",\"writing_quality\":\"Poor\",\"suggested_desc\":\"Better\",\"schema_prescription\":\"Physician\"}"

GoodPage ==
    Page(Some("About our clinic"), Some("About"), Some("We treat patients."),
         <<FaqBlock>>, "Our clinic treats patients.", 40)
NoTitlePage == [GoodPage EXCEPT !.title = None]
BrokenLdPage == [GoodPage EXCEPT !.ld = <<"{bad", FaqBlock>>]
BadTypePage == [GoodPage EXCEPT !.ld = <<"{\"@type\":5}">>]

\* The batch: CSVs of up to MaxRows rows under three header rows, a few
\* pages, a failing fetch, and four behaviours of the AI client.
UrlCells == {None, Some(""), Some(" \t"), Some(" a.io/x?q=1 ")}
SiteCells == {Some(""), Some("http://b.io/p#top")}

BatchCsvs ==
    {<<>>}
    \cup {[n \in DOMAIN cells |-> Row(<<"Page Title", "URL">>, <<Some("A"), cells[n]>>)] :
              cells \in SeqsOf(UrlCells, 1, MaxRows)}
    \cup {[n \in DOMAIN cells |-> Row(<<"website">>, <<cells[n]>>)] :
              cells \in SeqsOf(SiteCells, 1, MaxRows)}
    \cup {[n \in 1..len |-> Row(<<"Name", "Notes">>, <<Some("Clinic"), Some("a.io")>>)] :
              len \in 1..MaxRows}

BatchResponses == {FetchFailed("timeout"), Fetched(GoodPage), Fetched(NoTitlePage),
                   Fetched(BrokenLdPage), Fetched(BadTypePage)}
BatchReplies == {Replied(OptimalReply), Replied(LowReply), Replied("[1]"),
                 Raised("quota exceeded")}

\* Scoring: one row, every combination of the page facts the score reads,
\* and every behaviour of the AI client.
ScoreTitles == {None, Some(""), Some(MISSING), Some("  Home  "), Some(Rep("a", 9)),
                Some(Rep("a", 10)), Some(Rep("a", 70)), Some(Rep("a", 71))}
ScorePages ==
    {Page(t, h, m, ld, b, r) :
        t \in ScoreTitles, h \in {None, Some("Welcome")},
        m \in {None, Some(""), Some("We treat patients.")},
        ld \in {<<>>, <<FaqBlock>>, <<"{bad">>}, b \in {"", "Our clinic"},
        r \in {0, 85, 86, 100}}
ScoreResponses == {FetchFailed("timeout")} \cup {Fetched(pg) : pg \in ScorePages}
ScoreReplies ==
    {Raised(m) : m \in {"", "quota exceeded", "403 Permission denied",
                        "ValueError: bad reply", "Error", "Optimal"}}
    \cup {Replied(t) : t \in {OptimalReply, LowReply, "not json", "[1]", "null",
              "{}", "{\"rating\":\"Low\"}",
              "{\"rating\":\"Medium\",\"writing_quality\":\"Awkward\",\"suggested_desc\":\"Better\",\"schema_prescription\":\"\"}",
              "{\"rating\":\"High\",\"schema_prescription\":5}",
              "{\"rating\":\"High\",\"schema_prescription\":null}",
              "{\"rating\":\"High\",\"schema_prescription\":[\"Physician\"]}"}}

OneRowCsv == <<Row(<<"Page Title", "URL">>, <<Some(""), Some("a.io/x")>>)>>

\* Scraping: one row, every sequence of up to MaxBlocks JSON-LD blocks.
BlockTexts ==
    {"", " ", "{bad", FaqBlock, "{\"@type\":[\"Physician\",\"Person\"]}", "{\"@type\":5}",
     "{\"@type\":{\"a\":null}}", "{\"@graph\":[{\"@type\":\"WebPage\"},{}]}",
     "{\"@graph\":[{\"@type\":\"FAQPage\"},7,{\"@type\":\"Person\"}]}", "{\"@graph\":5}",
     "{}", "[1]", "[\"@graph\"]", "\"@graph\"", "5", "null"}
ScrapeResponses ==
    {FetchFailed("404 Client Error")}
    \cup {Fetched([GoodPage EXCEPT !.ld = ld]) : ld \in SeqsOf(BlockTexts, 0, MaxBlocks)}

\* Column detection: one-row CSVs under every header row of up to
\* MaxHeaders distinct names.
HeaderNames == {"", " ", "URL", " url ", "Page URL", "page_url", "Loc", "link", "Address",
                "Page Title", "Title", "page", "Name", "Notes", "website"}
HeaderCsvs ==
    {<<Row(ks, [n \in DOMAIN ks |-> Some("a.io")])>> :
        ks \in {q \in SeqsOf(HeaderNames, 1, MaxHeaders) :
                    \A a, b \in DOMAIN q : a # b => q[a] # q[b]}}

(***************************************************************************)
(* Specifications                                                          *)
(***************************************************************************)
RunAudit == \E csv \in BatchCsvs : RunAuditWith(csv)
ProcessRow == \E rsp \in BatchResponses, reply \in BatchReplies : ProcessRowWith(rsp, reply)

Next == RunAuditNoFile \/ RunAudit \/ ProcessRow \/ Finish
Spec == Init /\ [][Next]_vars

RunAuditOne == RunAuditWith(OneRowCsv)
ScoreRow == \E rsp \in ScoreResponses, reply \in ScoreReplies : ProcessRowWith(rsp, reply)
InitOne == Init /\ staging_domain = ""
NextScore == RunAuditOne \/ ScoreRow \/ Finish
SpecScore == InitOne /\ [][NextScore]_vars

ScrapeRow == \E rsp \in ScrapeResponses : ProcessRowWith(rsp, Replied(OptimalReply))
NextScrape == RunAuditOne \/ ScrapeRow \/ Finish
SpecScrape == InitOne /\ [][NextScrape]_vars

DetectColumns == \E csv \in HeaderCsvs : RunAuditWith(csv)
NextColumns == RunAuditNoFile \/ DetectColumns
SpecColumns == Init /\ [][NextColumns]_vars

(***************************************************************************)
(* Properties                                                              *)
(***************************************************************************)
\* Whether row n's URL cell is non-blank: present and not only whitespace.
NonBlankRow(n) ==
    LET cell == RowGet(rows[n], url_key, Some(""))
    IN cell.some /\ \E m \in 1..Len(cell.v) : CharAt(cell.v, m) \notin Whitespace

NonBlankCount(k) == Cardinality({n \in 1..k : NonBlankRow(n)})

Records == Range(results) \cup Range(seo_results)

\* The last row was fetched, scored and appended.
RowScored == pc \in {"rows", "done"} /\ Len(results) = 1 /\ ~data.isError

\* C1: once column detection has succeeded the loop never aborts: whatever a
\* row's fetch, JSON-LD blocks and AI reply are, the run stays in the loop or
\* completes, the result list holds one record per non-blank row consumed,
\* and a failed row has score 0 and a populated error field.
C1_RowIsolation ==
    pc \notin {"idle", "stopped"} =>
        /\ pc \in {"rows", "done"}
        /\ Len(results) = NonBlankCount(i)
        /\ \A r \in Records : r.Status = "ERROR" => r.Score = 0 /\ Truthy(r.Error)

\* C2: every score calculate_score returns, and the Score of every record in
\* the result list and in the published list, error records included, is an
\* integer in 0..100.
C2_ScoreRange ==
    /\ \A r \in Records : r.Score \in 0..100
    /\ (fetches > 0 /\ ~data.isError /\ ~calculate_score(data, ai_feedback).raised)
           => calculate_score(data, ai_feedback).score \in 0..100

C2_Witness ==
    /\ pc = "done"
    /\ \E r \in Range(seo_results) :
           /\ r.Status = "" /\ r.Score = 0
           /\ StrContains("Low Content Relevance", r.Score_Log)
    /\ ~data.JSON_Valid /\ data.Title = MISSING /\ data.Echo_Score > 85

\* C3: when the AI client fails (it raises, or its reply is not JSON) the
\* opinion is the all-"Error" one carrying the message, and the row's score
\* and log are those of the same snapshot with the AI disabled.
C3_ErrorOpinionNeutral ==
    (RowScored /\ use_ai /\ (ai_reply.raised \/ ~json_loads(ai_reply.text).ok)) =>
        /\ ai_feedback \in {ErrorOpinion(ai_reply.msg), ErrorOpinion(JsonDecodeMsg)}
        /\ results[1].Score = calculate_score(data, EmptyOpinion).score
        /\ results[1].Score_Log = calculate_score(data, EmptyOpinion).log

\* C5: a page with no <title>, with an H1, a meta description whose echo
\* score is at most 85 and only valid JSON-LD, scored with the AI disabled,
\* gets score 80 and the log "Missing Title (-20)" alone.
C5_MissingTitleScenario ==
    (/\ RowScored /\ ~use_ai
     /\ ~response.page.title.some
     /\ data.H1 # MISSING /\ data.Meta_Description # MISSING
     /\ data.Echo_Score <= 85 /\ data.JSON_Valid) =>
        /\ results[1].Score = 80
        /\ results[1].Score_Log = "Missing Title (-20)"

\* C6: a snapshot whose meta description is MISSING is deducted 20, logged
\* as "Missing Meta Desc": its score is 20 lower, before the clamp at 0,
\* than that of the same snapshot with a present, non-echoing description.
C6_MissingMetaDeduction ==
    (RowScored /\ data.Meta_Description = MISSING) =>
        LET present == [data EXCEPT !.Meta_Description = "We treat patients.",
                                    !.Echo_Score = 0]
            ds == PageDeductions(present) \o AiDeductions(ai_feedback)
            base == 100 - Sum([n \in DOMAIN ds |-> ds[n].pts])
        IN /\ StrContains("Missing Meta Desc", results[1].Score_Log)
           /\ results[1].Score = (IF base - 20 < 0 THEN 0 ELSE base - 20)

\* C7: with no rows, or with url_key unset after column detection, the run
\* stops before the loop: no fetch, no AI call, no row consumed, no record,
\* nothing published; the missing-URL-column error carries the detected
\* headers.
C7_ConfigErrorsFatal ==
    (pc # "idle" /\ status # MsgNoFile /\ (rows = <<>> \/ ~url_key.some)) =>
        /\ pc = "stopped"
        /\ fetches = 0 /\ aiCalls = 0 /\ i = 0 /\ processed = 0
        /\ results = <<>> /\ seo_results = <<>>
        /\ status.level = "error"
        /\ rows # <<>> =>
               /\ status = MsgNoUrlColumn(headers)
               /\ headers = SelectSeq(rows[1].keys, LAMBDA h : h # "")

C7_Witness ==
    /\ pc = "stopped" /\ Len(rows) >= 2
    /\ status = MsgNoUrlColumn(<<"Name", "Notes">>)

\* C8: blank and whitespace-only rows are skipped without a fetch, a record
\* or a count; at the end the zero-valid-URLs warning is shown, with nothing
\* published and no fetch made, exactly when no row had a non-blank URL; a
\* batch whose fetches all failed completes with one score-0 error record
\* per non-blank row.
C8_ZeroValidVersusAllFailed ==
    /\ pc \in {"rows", "done"} =>
           /\ processed = NonBlankCount(i) /\ fetches = NonBlankCount(i)
           /\ Len(results) = NonBlankCount(i)
    /\ pc = "done" =>
           /\ status = MsgZeroValid <=> NonBlankCount(Len(rows)) = 0
           /\ status = MsgZeroValid => seo_results = <<>> /\ fetches = 0
           /\ status # MsgZeroValid =>
                  /\ status = MsgComplete(NonBlankCount(Len(rows)))
                  /\ Len(seo_results) = NonBlankCount(Len(rows))
                  /\ \A r \in Range(seo_results) :
                         r.Status = "ERROR" => r.Score = 0 /\ Truthy(r.Error)

C8_Witness ==
    /\ pc = "done" /\ Len(seo_results) = 2 /\ Len(rows) = 3
    /\ \A r \in Range(seo_results) : r.Status = "ERROR"
    /\ \E n \in 1..Len(rows) : RowGet(rows[n], url_key, Some("")) = Some(" \t")

\* C9: headers are the non-blank column names; url_key is a header whose
\* trimmed, lowercased form is the earliest URL candidate that any header
\* matches, else the sole header, else unset when there are two or more;
\* title_key likewise for the title candidates; with the three examples.
C9_ColumnResolution ==
    (pc # "idle" /\ rows # <<>>) =>
        LET keys == rows[1].keys
            norm(h) == Lower(Strip(h))
            matched(cands) == {n \in DOMAIN cands :
                                   \E h \in Range(headers) : norm(h) = cands[n]}
            least(S) == CHOOSE n \in S : \A m \in S : n <= m
            resolves(key, cands) ==
                /\ key.some /\ key.v \in Range(headers)
                /\ norm(key.v) = cands[least(matched(cands))]
        IN /\ headers = SelectSeq(keys, LAMBDA h : h # "")
           /\ matched(url_candidates) # {} => resolves(url_key, url_candidates)
           /\ matched(title_candidates) # {} => resolves(title_key, title_candidates)
           /\ (matched(url_candidates) = {} /\ Len(headers) = 1) => url_key = Some(headers[1])
           /\ (matched(url_candidates) = {} /\ Len(headers) >= 2) => url_key = None
           /\ keys = <<"Page Title", "URL">> =>
                  url_key = Some("URL") /\ title_key = Some("Page Title")
           /\ keys = <<"website">> => url_key = Some("website")
           /\ keys = <<"Name", "Notes">> => url_key = None /\ pc = "stopped"

C9_Witness ==
    /\ pc = "rows" /\ rows # <<>>
    /\ rows[1].keys = <<"link", "URL">>
    /\ url_key = Some("URL")

\* C10 as stated: JSON Valid is false exactly when some JSON-LD block of the
\* page fails json.loads, and Schema Raw is the blocks that parse, in order.
C10_AnyBlock ==
    (fetches > 0 /\ response.ok) =>
        LET ld == response.page.ld
        IN /\ ~data.JSON_Valid <=> \E n \in DOMAIN ld : ~json_loads(ld[n]).ok
           /\ data.Schema_Raw = SelectSeq(ld, LAMBDA b : json_loads(b).ok)

\* C10 amended: JSON Valid is false exactly when some JSON-LD block with
\* non-empty text fails json.loads; a failing block does not stop the scan,
\* and Schema Raw is the non-empty blocks that parse, in document order.
C10_NonEmptyBlock ==
    (fetches > 0 /\ response.ok) =>
        LET ld == response.page.ld
        IN /\ ~data.JSON_Valid <=> \E n \in DOMAIN ld : ld[n] # "" /\ ~json_loads(ld[n]).ok
           /\ data.Schema_Raw = SelectSeq(ld, LAMBDA b : b # "" /\ json_loads(b).ok)

C10_Witness ==
    /\ fetches > 0 /\ response.ok
    /\ response.page.ld = <<"{bad", FaqBlock>>
    /\ ~data.JSON_Valid /\ data.Schema_Raw = <<FaqBlock>>

\* out is input sorted ascending by score, records of equal score in their
\* order in input (the records of one run are pairwise distinct).
IsStableSortOf(out, input) ==
    LET pos(r) == CHOOSE n \in DOMAIN input : input[n] = r
    IN /\ Len(out) = Len(input)
       /\ Range(out) = Range(input)
       /\ \A a, b \in DOMAIN out :
              a < b => \/ out[a].Score < out[b].Score
                       \/ out[a].Score = out[b].Score /\ pos(out[a]) < pos(out[b])

\* C4: when at least one row was processed, the published sequence is the
\* records appended by the loop, sorted ascending by score with records of
\* equal score in processing order; it is published in the one step that
\* ends the loop after the last row, and changes in no other step.
C4_FinalOrdering ==
    [][/\ (pc = "rows" /\ pc' = "done" /\ processed > 0) =>
              IsStableSortOf(seo_results', results)
       /\ seo_results' # seo_results => (pc = "rows" /\ i = Len(rows) /\ pc' = "done")]_vars

C4_Witness ==
    /\ pc = "done" /\ Len(seo_results) = 3
    /\ seo_results[1].Score = seo_results[2].Score
    /\ seo_results[1].row = 2 /\ seo_results[2].row = 3 /\ seo_results[3].row = 1

====
